---- MODULE Spec2Model ----
(***************************************************************************)
(* Model of packages/core/src/sync/abi.ts: the ABI metadata indexer        *)
(* (buildAbiEvents, buildAbiFunctions) and the log-topic filter compiler   *)
(* (buildTopics, findAbiEvent).                                            *)
(*                                                                         *)
(* Strings are modelled as sequences of tokens.  A token is a word (an     *)
(* identifier, a type, a keyword) or one of the separators " ", "(", ")",  *)
(* ",".  Two strings are equal exactly when their token sequences are      *)
(* equal, so string operations of the code (concatenation, split,          *)
(* includes, the character scan of normalizeSignature) are computed on the *)
(* tokens.                                                                 *)
(***************************************************************************)
EXTENDS Integers, Sequences, FiniteSets, TLC

\* Longest interface (number of declarations) the model explores.
MaxAbiLen == 2

\* Longest filter sequence the model explores.
MaxFilters == 2

(***************************************************************************)
(* Declarations                                                            *)
(***************************************************************************)

\* An event or function parameter.  name = "" stands for a missing name.
Param(t, ix, n) == [type |-> t, indexed |-> ix, name |-> n]

\* An ABI item.  anonymous is "undefined", "false" or "true".
AbiItem(ty, n, ins, anon) ==
    [type |-> ty, name |-> n, inputs |-> ins, anonymous |-> anon]

EvFooUint == AbiItem("event", "Foo", <<Param("uint256", TRUE, "a")>>, "undefined")
EvFooAddr == AbiItem("event", "Foo", <<Param("address", TRUE, "a")>>, "false")
EvFooPlain == AbiItem("event", "Foo", <<Param("uint256", FALSE, "b")>>, "undefined")
EvFooAnon == AbiItem("event", "Foo", <<Param("address", TRUE, "a")>>, "true")
EvFooEmpty == AbiItem("event", "Foo", <<>>, "undefined")
EvTransfer ==
    AbiItem("event", "Transfer",
            <<Param("address", TRUE, "from"), Param("address", TRUE, "to"),
              Param("uint256", FALSE, "amount")>>, "undefined")
EvSwap ==
    AbiItem("event", "Swap",
            <<Param("uint256", FALSE, "amount"), Param("address", TRUE, "to")>>,
            "undefined")
FnFoo == AbiItem("function", "Foo", <<Param("uint256", FALSE, "a")>>, "undefined")
FnFooB == AbiItem("function", "Foo", <<Param("uint256", FALSE, "b")>>, "undefined")
FnFooEmpty == AbiItem("function", "Foo", <<>>, "undefined")

\* The declarations interfaces are drawn from.
Decls ==
    {EvFooUint, EvFooAddr, EvFooPlain, EvFooAnon, EvFooEmpty, EvTransfer, EvSwap,
     FnFoo, FnFooB, FnFooEmpty}

\* The interfaces (Abi values) the model explores.
Abis == UNION {[1..n -> Decls] : n \in 0..MaxAbiLen}

(***************************************************************************)
(* Sequence helpers                                                        *)
(***************************************************************************)

RECURSIVE Join(_, _)
\* parts.join(sep) on token sequences.
Join(parts, sep) ==
    IF Len(parts) = 0 THEN <<>>
    ELSE IF Len(parts) = 1 THEN parts[1]
    ELSE parts[1] \o sep \o Join(Tail(parts), sep)

(***************************************************************************)
(* Signature rendering                                                     *)
(***************************************************************************)

\* abitype formatAbiParameter: type, " indexed" when indexed, " name" when named.
formatAbiParameter(p) ==
    <<p.type>>
    \o (IF p.indexed THEN <<" ", "indexed">> ELSE <<>>)
    \o (IF p.name # "" THEN <<" ", p.name>> ELSE <<>>)

\* abitype formatAbiParameters: the parameters joined by ", ".
formatAbiParameters(ins) ==
    Join([i \in 1..Len(ins) |-> formatAbiParameter(ins[i])], <<",", " ">>)

\* abitype formatAbiItem: "event Name(params)" / "function Name(params)".
formatAbiItem(item) ==
    <<item.type, " ", item.name, "(">> \o formatAbiParameters(item.inputs) \o <<")">>

RECURSIVE normalizeScan(_, _, _, _, _, _)
\* The character loop of viem's normalizeSignature, one token per step.
\* Yields [valid, result].
normalizeScan(sig, i, active, current, level, result) ==
    IF i > Len(sig) THEN [valid |-> FALSE, result |-> result]
    ELSE
      LET char == sig[i]
          active1 == IF char \in {"(", ")", ","} THEN TRUE ELSE active
          level1 == IF char = "(" THEN level + 1
                    ELSE IF char = ")" THEN level - 1 ELSE level
      IN  IF ~active1 THEN normalizeScan(sig, i + 1, active1, current, level1, result)
          ELSE IF level1 = 0 THEN
            IF char = " " /\ result \in {<<"event">>, <<"function">>, <<>>}
            THEN normalizeScan(sig, i + 1, active1, current, level1, <<>>)
            ELSE IF char = ")" THEN [valid |-> TRUE, result |-> Append(result, char)]
            ELSE normalizeScan(sig, i + 1, active1, current, level1, Append(result, char))
          ELSE IF char = " " THEN
            IF /\ i > 1 => sig[i - 1] # ","
               /\ current # <<",">>
               /\ current # <<",", "(">>
            THEN normalizeScan(sig, i + 1, FALSE, <<>>, level1, result)
            ELSE normalizeScan(sig, i + 1, active1, current, level1, result)
          ELSE normalizeScan(sig, i + 1, active1, Append(current, char), level1,
                             Append(result, char))

\* viem normalizeSignature: drops the keyword, parameter names, the indexed
\* modifier and whitespace, leaving "Name(type,type)".
normalizeSignature(sig) == normalizeScan(sig, 1, TRUE, <<>>, 0, <<>>)

\* viem toSignature of an ABI item: the normalized rendering of the item.
toSignature(item) == normalizeSignature(formatAbiItem(item)).result

\* keccak256 of a string, as an opaque value: equal inputs give equal hashes and
\* the model takes distinct inputs to have distinct hashes.
keccak256(text) == [keccak256 |-> text, bytes |-> 32]

\* viem toEventSelector: the full hash of the normalized signature.
toEventSelector(item) == keccak256(toSignature(item))

\* viem toFunctionSelector: the first 4 bytes of the hash.
toFunctionSelector(item) == [keccak256 |-> toSignature(item), bytes |-> 4]

(***************************************************************************)
(* Interface indexer                                                       *)
(***************************************************************************)

\* getDuplicateElements: the set of elements occurring more than once.
getDuplicateElements(arr) ==
    {arr[i] : i \in {k \in 1..Len(arr) : \E j \in 1..Len(arr) : j # k /\ arr[j] = arr[k]}}

\* The least index at or after i where the two-token separator sep starts in
\* text, or 0 when there is none.
RECURSIVE indexOf(_, _, _)
indexOf(text, sep, i) ==
    IF i + 1 > Len(text) THEN 0
    ELSE IF text[i] = sep[1] /\ text[i + 1] = sep[2] THEN i
    ELSE indexOf(text, sep, i + 1)

\* text.split(sep)[1]: the piece between the first and the second occurrence
\* of sep (to the end when there is no second one).  The code applies it with
\* "!" to a rendering that starts with sep, so a first occurrence exists.
splitSecond(text, sep) ==
    LET first == indexOf(text, sep, 1)
        next == indexOf(text, sep, first + 2)
    IN  IF next = 0 THEN SubSeq(text, first + 2, Len(text))
        ELSE SubSeq(text, first + 2, next - 1)

\* isEvent that keeps every item that has a name.
isEvent_AnyNamedItem(item) == item.name # ""

isEvent(item) == item.type = "event"

isFunction(item) == item.type = "function"

\* notAnonymous with only the first disjunct: an explicit false is dropped.
notAnonymous_OnlyUndefined(item) == item.anonymous = "undefined"

notAnonymous(item) == item.anonymous = "undefined" \/ item.anonymous = "false"

\* An entry of an index.
AbiMeta(safeName, signature, selector, item) ==
    [safeName |-> safeName, signature |-> signature, selector |-> selector, item |-> item]

\* The empty index.
EmptyIndex == [bySafeName |-> <<>>, bySelector |-> <<>>]

\* obj[key] = value on a JavaScript object modelled as a function.
Put(obj, key, value) ==
    [k \in DOMAIN obj \cup {key} |-> IF k = key THEN value ELSE obj[k]]

\* abiEvents without the second filter: anonymous events are kept.
abiEvents_KeepAnonymous(abi) == SelectSeq(abi, isEvent)

\* The events buildAbiEvents indexes: type "event" and not anonymous.
abiEvents(abi) == SelectSeq(SelectSeq(abi, isEvent), notAnonymous)

overloadedEventNames(abi) ==
    getDuplicateElements([i \in 1..Len(abiEvents(abi)) |-> abiEvents(abi)[i].name])

\* eventSafeName without the overload test: always the plain name.
eventSafeName_AlwaysName(abi, item) == <<item.name>>

\* safeName of an event: the signature without its keyword when the name is
\* overloaded, the name otherwise.
eventSafeName(abi, item) ==
    IF item.name \in overloadedEventNames(abi)
    THEN splitSecond(formatAbiItem(item), <<"event", " ">>)
    ELSE <<item.name>>

\* eventReducer that hashes the rendered signature, names and modifiers
\* included, instead of the normalized one.
eventReducer_HashRendering(abi, acc, item) ==
    LET signature == formatAbiItem(item)
        safeName == eventSafeName(abi, item)
        selector == keccak256(signature)
        abiEventMeta == AbiMeta(safeName, signature, selector, item)
    IN  [bySafeName |-> Put(acc.bySafeName, safeName, abiEventMeta),
         bySelector |-> Put(acc.bySelector, selector, abiEventMeta)]

\* One step of the reduce in buildAbiEvents.
eventReducer(abi, acc, item) ==
    LET signature == formatAbiItem(item)
        safeName == eventSafeName(abi, item)
        selector == toEventSelector(item)
        abiEventMeta == AbiMeta(safeName, signature, selector, item)
    IN  [bySafeName |-> Put(acc.bySafeName, safeName, abiEventMeta),
         bySelector |-> Put(acc.bySelector, selector, abiEventMeta)]

RECURSIVE reduceEvents(_, _, _)
reduceEvents(abi, items, acc) ==
    IF items = <<>> THEN acc
    ELSE reduceEvents(abi, Tail(items), eventReducer(abi, acc, Head(items)))

buildAbiEvents(abi) == reduceEvents(abi, abiEvents(abi), EmptyIndex)

\* The functions buildAbiFunctions indexes.
abiFunctions(abi) == SelectSeq(abi, isFunction)

overloadedFunctionNames(abi) ==
    getDuplicateElements([i \in 1..Len(abiFunctions(abi)) |-> abiFunctions(abi)[i].name])

\* functionSafeName that gives a function which is not overloaded its plain
\* name, as eventSafeName does.
functionSafeName_PlainName(abi, item) ==
    IF item.name \in overloadedFunctionNames(abi)
    THEN splitSecond(formatAbiItem(item), <<"function", " ">>)
    ELSE <<item.name>>

\* safeName of a function: the signature without its keyword when the name is
\* overloaded, the name followed by "()" otherwise.
functionSafeName(abi, item) ==
    IF item.name \in overloadedFunctionNames(abi)
    THEN splitSecond(formatAbiItem(item), <<"function", " ">>)
    ELSE <<item.name, "(", ")">>

\* One step of the reduce in buildAbiFunctions.
functionReducer(abi, acc, item) ==
    LET signature == formatAbiItem(item)
        safeName == functionSafeName(abi, item)
        selector == toFunctionSelector(item)
        abiEventMeta == AbiMeta(safeName, signature, selector, item)
    IN  [bySafeName |-> Put(acc.bySafeName, safeName, abiEventMeta),
         bySelector |-> Put(acc.bySelector, selector, abiEventMeta)]

RECURSIVE reduceFunctions(_, _, _)
reduceFunctions(abi, items, acc) ==
    IF items = <<>> THEN acc
    ELSE reduceFunctions(abi, Tail(items), functionReducer(abi, acc, Head(items)))

buildAbiFunctions(abi) == reduceFunctions(abi, abiFunctions(abi), EmptyIndex)

(***************************************************************************)
(* Filter compiler                                                         *)
(***************************************************************************)

\* The value findAbiEvent hands to encodeEventTopics: an item, undefined, or a
\* thrown error.
NoItem == AbiItem("", "", <<>>, "undefined")

Found(item) == [kind |-> "item", item |-> item, error |-> ""]

Undefined == [kind |-> "undefined", item |-> NoItem, error |-> ""]

Thrown(error) == [kind |-> "throw", item |-> NoItem, error |-> error]

\* The Solidity types the parser accepts in this model.
SolidityTypes == {"uint256", "address"}

Separators == {" ", "(", ")", ","}

isWord(tok) == tok \notin Separators

RECURSIVE trimStart(_)
trimStart(text) ==
    IF text # <<>> /\ Head(text) = " " THEN trimStart(Tail(text)) ELSE text

RECURSIVE trimEnd(_)
trimEnd(text) ==
    IF text # <<>> /\ text[Len(text)] = " "
    THEN trimEnd(SubSeq(text, 1, Len(text) - 1)) ELSE text

trim(text) == trimEnd(trimStart(text))

RECURSIVE splitParameters(_, _, _)
\* abitype splitParameters at depth 0: the pieces between commas, trimmed; an
\* empty piece is skipped.
splitParameters(params, current, result) ==
    IF params = <<>> THEN
      IF current = <<>> THEN result ELSE Append(result, trim(current))
    ELSE IF Head(params) = "," THEN
      IF current = <<>> THEN splitParameters(Tail(params), <<>>, result)
      ELSE splitParameters(Tail(params), <<>>, Append(result, trim(current)))
    ELSE splitParameters(Tail(params), Append(current, Head(params)), result)

\* abitype parseAbiParameter with the event modifiers, on one trimmed piece:
\* type, then optionally " indexed", then optionally " name".
validParameter(p) ==
    /\ Len(p) \in {1, 3, 5}
    /\ p[1] \in SolidityTypes
    /\ Len(p) >= 3 => p[2] = " " /\ isWord(p[3])
    /\ Len(p) = 5 => p[3] = "indexed" /\ p[4] = " " /\ isWord(p[5])

parseAbiParameter(p) ==
    IF Len(p) = 1 THEN Param(p[1], FALSE, "")
    ELSE IF Len(p) = 3 THEN
      IF p[3] = "indexed" THEN Param(p[1], TRUE, "") ELSE Param(p[1], FALSE, p[3])
    ELSE Param(p[1], TRUE, p[5])

\* abitype parseAbiItem of "event Name(parameters)": the event regex, then the
\* parameters one by one.  The parsed item carries no anonymous field.
parseAbiItem(signature) ==
    LET n == Len(signature)
        shaped == /\ n >= 5
                  /\ signature[1] = "event" /\ signature[2] = " "
                  /\ isWord(signature[3]) /\ signature[4] = "("
                  /\ signature[n] = ")"
                  /\ \A i \in 5..(n - 1) : signature[i] \notin {"(", ")"}
        params == splitParameters(SubSeq(signature, 5, n - 1), <<>>, <<>>)
    IN  IF ~shaped THEN Thrown("UnknownSignatureError")
        ELSE IF \E i \in 1..Len(params) : ~validParameter(params[i])
        THEN Thrown("InvalidParameterError")
        ELSE Found(AbiItem("event", signature[3],
                           [i \in 1..Len(params) |-> parseAbiParameter(params[i])],
                           "undefined"))

\* viem getAbiItem called without args: the items of any type carrying the
\* name; none gives undefined, one gives it, several give the first one
\* without inputs, else the first one.
getAbiItem(abi, name) ==
    LET hasName(item) == <<item.name>> = name
        abiItems == SelectSeq(abi, hasName)
        noInputs(item) == Len(item.inputs) = 0
        empties == SelectSeq(abiItems, noInputs)
    IN  IF Len(abiItems) = 0 THEN Undefined
        ELSE IF Len(abiItems) = 1 THEN Found(abiItems[1])
        ELSE IF Len(empties) > 0 THEN Found(empties[1])
        ELSE Found(abiItems[1])

\* eventName.includes("(")
includesParen(eventName) == \E i \in 1..Len(eventName) : eventName[i] = "("

\* findAbiEvent that looks the name of a signature up in the interface first
\* and parses the signature only when the interface does not hold the name.
findAbiEvent_InterfaceFirst(abi, eventName) ==
    IF includesParen(eventName) /\ getAbiItem(abi, <<eventName[1]>>).kind = "item"
    THEN getAbiItem(abi, <<eventName[1]>>)
    ELSE IF includesParen(eventName)
    THEN parseAbiItem(<<"event", " ">> \o eventName)
    ELSE getAbiItem(abi, eventName)

\* findAbiEvent that reads a bare name as a signature without parameters.
findAbiEvent_ParseBareName(abi, eventName) ==
    IF includesParen(eventName)
    THEN parseAbiItem(<<"event", " ">> \o eventName)
    ELSE parseAbiItem(<<"event", " ">> \o eventName \o <<"(", ")">>)

findAbiEvent(abi, eventName) ==
    IF includesParen(eventName)
    THEN parseAbiItem(<<"event", " ">> \o eventName)
    ELSE getAbiItem(abi, eventName)

\* A constraint on one indexed parameter: undefined, one value or a list.
NoConstraint == [kind |-> "undefined", vs |-> <<>>]

One(v) == [kind |-> "value", vs |-> <<v>>]

AnyOf(vs) == [kind |-> "list", vs |-> vs]

\* filter.args: undefined, a positional array, or an object keyed by parameter
\* name (keys[i] holds vals[i]).
NoArgs == [kind |-> "undefined", keys |-> <<>>, vals |-> <<>>]

ArrayArgs(vals) == [kind |-> "array", keys |-> <<>>, vals |-> vals]

ObjectArgs(keys, vals) == [kind |-> "object", keys |-> keys, vals |-> vals]

\* args[name] on an object.
argOf(args, name) ==
    IF \E i \in 1..Len(args.keys) : args.keys[i] = name
    THEN args.vals[CHOOSE i \in 1..Len(args.keys) : args.keys[i] = name]
    ELSE NoConstraint

\* A topic slot: null, one encoded value or a list of encoded values.
Null == [kind |-> "null", vs |-> <<>>]

Hex(h) == [kind |-> "hex", vs |-> <<h>>]

HexList(hs) == [kind |-> "list", vs |-> hs]

\* viem encodeArg: the hash of a string or bytes value, else the value's
\* 32-byte ABI encoding (the same for an address and an unsigned number).
encodeArg(param, value) ==
    IF param.type \in {"string", "bytes"} THEN keccak256(<<value>>)
    ELSE [pad32 |-> value]

isIndexed(param) == param.indexed

\* The topics after the selector in viem encodeEventTopics.
encodeArgTopics(abiItem, args) ==
    LET indexedInputs == SelectSeq(abiItem.inputs, isIndexed)
        args_ == IF args.kind = "array" THEN args.vals
                 ELSE IF Len(args.vals) > 0
                 THEN [i \in 1..Len(indexedInputs) |-> argOf(args, indexedInputs[i].name)]
                 ELSE <<>>
        at(i) == IF i <= Len(args_) THEN args_[i] ELSE NoConstraint
        slot(i) ==
            IF at(i).kind = "list"
            THEN HexList([j \in 1..Len(at(i).vs) |-> encodeArg(indexedInputs[i], at(i).vs[j])])
            ELSE IF at(i).kind = "value" THEN Hex(encodeArg(indexedInputs[i], at(i).vs[1]))
            ELSE Null
    IN  IF args.kind = "undefined" \/ Len(args_) = 0 THEN <<>>
        ELSE [i \in 1..Len(indexedInputs) |-> slot(i)]

\* viem encodeEventTopics({abi: [found], args}): reading the type of an
\* undefined item throws a TypeError, a non-event item is rejected, an event
\* gives its selector followed by the argument topics.
encodeEventTopics(found, args) ==
    IF found.kind = "throw" THEN [error |-> found.error, topics |-> <<>>]
    ELSE IF found.kind = "undefined" THEN [error |-> "TypeError", topics |-> <<>>]
    ELSE IF found.item.type # "event"
    THEN [error |-> "AbiEventNotFoundError", topics |-> <<>>]
    ELSE [error |-> "",
          topics |-> <<Hex(toEventSelector(found.item))>>
                     \o encodeArgTopics(found.item, args)]

\* topics[k] ?? null
orNull(topics, k) == IF k <= Len(topics) THEN topics[k] ELSE Null

\* compileFilter that reads every slot one position too early.
compileFilter_ShiftedSlots(abi, filter) ==
    LET enc == encodeEventTopics(findAbiEvent(abi, filter.event), filter.args)
    IN  [error |-> enc.error,
         tuple |-> [topic0 |-> orNull(enc.topics, 1),
                    topic1 |-> orNull(enc.topics, 1),
                    topic2 |-> orNull(enc.topics, 2),
                    topic3 |-> orNull(enc.topics, 3)]]

\* compileFilter that exchanges the first two argument slots.
compileFilter_SwappedSlots(abi, filter) ==
    LET enc == encodeEventTopics(findAbiEvent(abi, filter.event), filter.args)
    IN  [error |-> enc.error,
         tuple |-> [topic0 |-> orNull(enc.topics, 1),
                    topic1 |-> orNull(enc.topics, 3),
                    topic2 |-> orNull(enc.topics, 2),
                    topic3 |-> orNull(enc.topics, 4)]]

\* The callback of filters.map in buildTopics.
compileFilter(abi, filter) ==
    LET enc == encodeEventTopics(findAbiEvent(abi, filter.event), filter.args)
    IN  [error |-> enc.error,
         tuple |-> [topic0 |-> orNull(enc.topics, 1),
                    topic1 |-> orNull(enc.topics, 2),
                    topic2 |-> orNull(enc.topics, 3),
                    topic3 |-> orNull(enc.topics, 4)]]

FilterSpec(event, args) == [event |-> event, args |-> args]

\* Placeholder in the field a filter does not use.
NoSpec == FilterSpec(<<>>, NoArgs)

\* A filter: one spec (held in spec), or an array of specs (held in specs).
Single(spec) == [isArray |-> FALSE, spec |-> spec, specs |-> <<>>]

Array(specs) == [isArray |-> TRUE, spec |-> NoSpec, specs |-> specs]

\* Array.isArray(filter) ? filter : [filter]
filtersOf(filter) == IF filter.isArray THEN filter.specs ELSE <<filter.spec>>

\* buildTopics that returns the tuples in reverse order.
buildTopics_Reversed(abi, filter) ==
    LET filters == filtersOf(filter)
        n == Len(filters)
        topics == [i \in 1..n |-> compileFilter(abi, filters[n + 1 - i])]
        failed == {i \in 1..n : topics[i].error # ""}
    IN  IF failed # {}
        THEN [ok |-> FALSE, topics |-> <<>>,
              error |-> topics[CHOOSE i \in failed : \A j \in failed : i >= j].error]
        ELSE [ok |-> TRUE, topics |-> [i \in 1..n |-> topics[i].tuple], error |-> ""]

\* buildTopics: the tuples of the specs in order; the first spec that throws
\* ends the call with its error.
buildTopics(abi, filter) ==
    LET filters == filtersOf(filter)
        topics == [i \in 1..Len(filters) |-> compileFilter(abi, filters[i])]
        failed == {i \in 1..Len(filters) : topics[i].error # ""}
    IN  IF failed # {}
        THEN [ok |-> FALSE, topics |-> <<>>,
              error |-> topics[CHOOSE i \in failed : \A j \in failed : i <= j].error]
        ELSE [ok |-> TRUE, topics |-> [i \in 1..Len(filters) |-> topics[i].tuple],
              error |-> ""]

(***************************************************************************)
(* Inputs                                                                  *)
(***************************************************************************)

SigFooUintIndexed == <<"Foo", "(", "uint256", " ", "indexed", " ", "a", ")">>

SigFooUint == <<"Foo", "(", "uint256", ")">>

SigTransfer ==
    <<"Transfer", "(", "address", " ", "indexed", " ", "from", ",", " ",
      "address", " ", "indexed", " ", "to", ",", " ", "uint256", " ", "amount", ")">>

\* The filter specs filters are drawn from.
FilterSpecs ==
    {FilterSpec(<<"Foo">>, NoArgs),
     FilterSpec(<<"Foo">>, ObjectArgs(<<"a">>, <<One(1)>>)),
     FilterSpec(SigFooUintIndexed, ObjectArgs(<<"a">>, <<One(1)>>)),
     FilterSpec(SigFooUint, NoArgs),
     FilterSpec(<<"Transfer">>, ObjectArgs(<<"from">>, <<One(1)>>)),
     FilterSpec(<<"Transfer">>, ObjectArgs(<<"amount">>, <<AnyOf(<<1, 2>>)>>)),
     FilterSpec(<<"Transfer">>, ArrayArgs(<<One(1), AnyOf(<<2, 1>>), One(2)>>)),
     FilterSpec(SigTransfer, ObjectArgs(<<"to">>, <<AnyOf(<<2, 1>>)>>)),
     FilterSpec(<<"Swap">>, ObjectArgs(<<"to">>, <<One(2)>>)),
     FilterSpec(<<"Nope">>, NoArgs),
     FilterSpec(<<"Foo", "(">>, NoArgs)}

\* The specs arrays of two or more specs are drawn from: resolved by bare
\* name, resolved by signature, constrained on two slots, and faulty.
ArraySpecs ==
    {FilterSpec(<<"Foo">>, ObjectArgs(<<"a">>, <<One(1)>>)),
     FilterSpec(SigFooUint, NoArgs),
     FilterSpec(<<"Transfer">>, ArrayArgs(<<One(1), AnyOf(<<2, 1>>), One(2)>>)),
     FilterSpec(<<"Nope">>, NoArgs)}

\* The filters the model explores: a single spec or an array of specs.
Filters ==
    {Single(spec) : spec \in FilterSpecs}
    \cup {Array(<<spec>>) : spec \in FilterSpecs}
    \cup {Array(specs) : specs \in UNION {[1..n -> ArraySpecs] : n \in 0..MaxFilters}}

(***************************************************************************)
(* State machine: the indexer runs once per interface at startup, then a   *)
(* registered filter is compiled.                                          *)
(***************************************************************************)

VARIABLES abi, pc, events, functions, filter, topics

\* The state of one call of getRawProjectId (telemetry/project-id.ts).
VARIABLES ppc, exec, promise, calls, idByGit, outer

abiVars == <<abi, pc, events, functions, filter, topics>>

pidVars == <<ppc, exec, promise, calls, idByGit, outer>>

vars == <<abi, pc, events, functions, filter, topics,
          ppc, exec, promise, calls, idByGit, outer>>

\* A text or null; text is <<>> when kind is not "string".
NullId == [kind |-> "null", text |-> <<>>]

StringId(text) == [kind |-> "string", text |-> text]

\* What exec does: it throws when launched, or it runs the command and calls
\* back with an error ("none" for null) and the output.
ExecResult(throws, error, stdout) == [throws |-> throws, error |-> error, stdout |-> stdout]

NoPromise == [state |-> "none", text |-> <<>>]

\* No call of getRawProjectId is under way.
PidIdle ==
    /\ ppc = "idle"
    /\ exec = ExecResult(FALSE, "none", <<>>)
    /\ promise = NoPromise
    /\ calls = 0
    /\ idByGit = NullId
    /\ outer = [state |-> "pending", text |-> <<>>]

NoFilter == Array(<<>>)

NoTopics == [ok |-> FALSE, topics |-> <<>>, error |-> "not run"]

Init ==
    /\ abi \in Abis
    /\ pc = "start"
    /\ events = EmptyIndex
    /\ functions = EmptyIndex
    /\ filter = NoFilter
    /\ topics = NoTopics
    /\ PidIdle

BuildAbiEvents ==
    /\ pc = "start"
    /\ events' = buildAbiEvents(abi)
    /\ pc' = "events"
    /\ UNCHANGED <<abi, functions, filter, topics>>
    /\ UNCHANGED pidVars

BuildAbiFunctions ==
    /\ pc = "events"
    /\ functions' = buildAbiFunctions(abi)
    /\ pc' = "functions"
    /\ UNCHANGED <<abi, events, filter, topics>>
    /\ UNCHANGED pidVars

BuildTopics ==
    /\ pc = "functions"
    /\ \E f \in Filters :
         /\ filter' = f
         /\ topics' = buildTopics(abi, f)
    /\ pc' = "topics"
    /\ UNCHANGED <<abi, events, functions>>
    /\ UNCHANGED pidVars

Next == BuildAbiEvents \/ BuildAbiFunctions \/ BuildTopics

Spec == Init /\ [][Next]_vars

(***************************************************************************)
(* The indexer alone, on longer interfaces and one more function name.     *)
(***************************************************************************)

\* Longest interface the indexer is run on by itself.
MaxIndexLen == 3

FnBar == AbiItem("function", "Bar", <<Param("address", FALSE, "to")>>, "undefined")

IndexDecls == Decls \cup {FnBar}

IndexAbis == UNION {[1..n -> IndexDecls] : n \in 0..MaxIndexLen}

InitIndexer ==
    /\ abi \in IndexAbis
    /\ pc = "start"
    /\ events = EmptyIndex
    /\ functions = EmptyIndex
    /\ filter = NoFilter
    /\ topics = NoTopics
    /\ PidIdle

NextIndexer == BuildAbiEvents \/ BuildAbiFunctions

SpecIndexer == InitIndexer /\ [][NextIndexer]_vars

(***************************************************************************)
(* getRawProjectId: the git remote of the project, else the working        *)
(* directory.  Texts hold the whitespace tokens " " and "\n".              *)
(***************************************************************************)

Whitespace == {" ", "\n"}

RECURSIVE trimLeft(_)
trimLeft(text) ==
    IF text # <<>> /\ Head(text) \in Whitespace THEN trimLeft(Tail(text)) ELSE text

RECURSIVE trimRight(_)
trimRight(text) ==
    IF text # <<>> /\ text[Len(text)] \in Whitespace
    THEN trimRight(SubSeq(text, 1, Len(text) - 1)) ELSE text

\* String.prototype.trim
stringTrim(text) == trimRight(trimLeft(text))

\* process.cwd()
Cwd == <<"/", "project">>

\* The outputs of the git command the model explores.
Stdouts ==
    {<<>>, <<"\n">>, <<" ", "\n">>, <<"url">>, <<"url", "\n">>, <<" ", "url">>,
     <<"\n", "my", " ", "url", " ", "\n">>}

\* What exec can do: throw at launch, or call back with null, a command
\* failure or the timeout, and the output so far.
ExecResults ==
    {ExecResult(TRUE, "none", <<>>)}
    \cup {ExecResult(FALSE, e, out) : e \in {"none", "failed", "timeout"}, out \in Stdouts}

\* resolve(value) / reject(error): settles a pending promise, else nothing.
settle(p, state, text) ==
    IF p.state = "pending" THEN [state |-> state, text |-> text] ELSE p

\* The callback of exec without the return after reject.
execCallback_NoReturn(p, n, error, stdout) ==
    IF error # "none"
    THEN [promise |-> settle(settle(p, "rejected", <<>>), "fulfilled", stdout),
          calls |-> n + 2]
    ELSE [promise |-> settle(p, "fulfilled", stdout), calls |-> n + 1]

\* The callback of exec: reject on an error and return, else resolve with the
\* output.  calls counts the calls of resolve and reject.
execCallback(p, n, error, stdout) ==
    IF error # "none"
    THEN [promise |-> settle(p, "rejected", <<>>), calls |-> n + 1]
    ELSE [promise |-> settle(p, "fulfilled", stdout), calls |-> n + 1]

\* return String(await promise).trim() inside the try: a rejection is caught
\* and gives null.
awaitPromise(p) ==
    IF p.state = "fulfilled" THEN StringId(stringTrim(p.text)) ELSE NullId

\* (await _getProjectIdByGit()) || process.cwd(): null and "" are falsy.
orCwd(id) == IF id.kind = "string" /\ id.text # <<>> THEN id.text ELSE Cwd

InitProjectId ==
    /\ abi = <<>>
    /\ pc = "idle"
    /\ events = EmptyIndex
    /\ functions = EmptyIndex
    /\ filter = NoFilter
    /\ topics = NoTopics
    /\ ppc = "start"
    /\ exec \in ExecResults
    /\ promise = NoPromise
    /\ calls = 0
    /\ idByGit = NullId
    /\ outer = [state |-> "pending", text |-> <<>>]

\* new Promise(...): resolve and reject are captured.
NewPromise ==
    /\ ppc = "start"
    /\ promise' = [state |-> "pending", text |-> <<>>]
    /\ ppc' = "exec"
    /\ UNCHANGED <<exec, calls, idByGit, outer>>
    /\ UNCHANGED abiVars

\* exec(...) throws: the catch returns null.
ExecThrows ==
    /\ ppc = "exec"
    /\ exec.throws
    /\ idByGit' = NullId
    /\ ppc' = "returned"
    /\ UNCHANGED <<exec, promise, calls, outer>>
    /\ UNCHANGED abiVars

\* exec(...) starts the command; the function waits for the promise.
ExecStarts ==
    /\ ppc = "exec"
    /\ ~exec.throws
    /\ ppc' = "await"
    /\ UNCHANGED <<exec, promise, calls, idByGit, outer>>
    /\ UNCHANGED abiVars

\* The command ends, fails or is timed out: exec calls back, once.
ExecCallback ==
    /\ ppc = "await"
    /\ calls = 0
    /\ promise' = execCallback(promise, calls, exec.error, exec.stdout).promise
    /\ calls' = execCallback(promise, calls, exec.error, exec.stdout).calls
    /\ UNCHANGED <<ppc, exec, idByGit, outer>>
    /\ UNCHANGED abiVars

\* The await ends with the settled promise.
AwaitEnds ==
    /\ ppc = "await"
    /\ promise.state \in {"fulfilled", "rejected"}
    /\ idByGit' = awaitPromise(promise)
    /\ ppc' = "returned"
    /\ UNCHANGED <<exec, promise, calls, outer>>
    /\ UNCHANGED abiVars

\* getRawProjectId resolves with the id or the working directory.
GetRawProjectId ==
    /\ ppc = "returned"
    /\ outer' = [state |-> "fulfilled", text |-> orCwd(idByGit)]
    /\ ppc' = "done"
    /\ UNCHANGED <<exec, promise, calls, idByGit>>
    /\ UNCHANGED abiVars

NextProjectId ==
    NewPromise \/ ExecThrows \/ ExecStarts \/ ExecCallback \/ AwaitEnds \/ GetRawProjectId

\* exec calls back when the command ends or after the timeout at the latest,
\* and a settled promise resumes the function: every step is taken.
SpecProjectId == InitProjectId /\ [][NextProjectId]_vars /\ WF_vars(NextProjectId)

(***************************************************************************)
(* Properties                                                              *)
(***************************************************************************)

\* The specs of the compiled filter, in order.
ChkSpecs == filtersOf(filter)

\* The reference of a spec is a bare name: it holds no "(".
ChkBare(spec) == \A i \in 1..Len(spec.event) : spec.event[i] # "("

\* The positions of the interface's non-anonymous events called name.
ChkEventsNamed(name) ==
    {i \in 1..Len(abi) :
        abi[i].type = "event" /\ abi[i].anonymous # "true" /\ <<abi[i].name>> = name}

\* The positions of the interface's non-anonymous events.
ChkEvents == {i \in 1..Len(abi) : abi[i].type = "event" /\ abi[i].anonymous # "true"}

\* The positions of the interface's functions.
ChkFunctions == {i \in 1..Len(abi) : abi[i].type = "function"}

\* The entries of a mapping of an index.
ChkValues(map) == {map[k] : k \in DOMAIN map}

\* C1: a bare event name that matches two or more non-anonymous events of the
\* interface makes buildTopics fail with an AmbiguousReferenceError and return
\* no tuple; it never picks one of the overloads.
C1_AmbiguousBareNameFails ==
    pc = "topics" =>
      \A k \in 1..Len(ChkSpecs) :
        (ChkBare(ChkSpecs[k]) /\ Cardinality(ChkEventsNamed(ChkSpecs[k].event)) >= 2)
        => /\ ~topics.ok
           /\ topics.topics = <<>>
           /\ Len(ChkSpecs) = 1 => topics.error = "AmbiguousReferenceError"

\* C2: in every index that is returned, declarations with distinct signatures
\* have distinct selectors, so that each declaration is still found under its
\* selector (no entry of bySelector was overwritten by another signature).
C2_DistinctSignaturesDistinctSelectors ==
    /\ pc # "start" =>
         \A i, j \in ChkEvents :
           /\ formatAbiItem(abi[i]) # formatAbiItem(abi[j])
              => toEventSelector(abi[i]) # toEventSelector(abi[j])
           /\ events.bySelector[toEventSelector(abi[i])].signature = formatAbiItem(abi[i])
    /\ pc \in {"functions", "topics"} =>
         \A i, j \in ChkFunctions :
           /\ formatAbiItem(abi[i]) # formatAbiItem(abi[j])
              => toFunctionSelector(abi[i]) # toFunctionSelector(abi[j])
           /\ functions.bySelector[toFunctionSelector(abi[i])].signature
                = formatAbiItem(abi[i])

\* The positions of the interface's functions called name.
ChkFunctionsNamed(name) ==
    {i \in 1..Len(abi) : abi[i].type = "function" /\ <<abi[i].name>> = name}

\* The signature of a declaration without its leading keyword.
ChkBareSignature(item) ==
    <<item.name, "(">> \o formatAbiParameters(item.inputs) \o <<")">>

\* The keys of a mapping whose entries are declarations called name.
ChkKeysNamed(map, name) == {k \in DOMAIN map : <<map[k].item.name>> = name}

\* Every member of an overload group is in map under its own signature, under
\* a key no other member has, and the group has as many entries as members.
ChkGroupDistinct(map, group) ==
    \A i \in group :
      Cardinality(group) >= 2 =>
        LET key == ChkBareSignature(abi[i])
        IN  /\ key \in DOMAIN map
            /\ map[key].safeName = key
            /\ \A j \in group \ {i} : ChkBareSignature(abi[j]) # key
            /\ Cardinality(ChkKeysNamed(map, <<abi[i].name>>)) = Cardinality(group)

\* C3 as stated: after buildAbiEvents (buildAbiFunctions) every member of a
\* group of same-named events (functions) is in bySafeName under its own
\* signature, under a key different from every other member's, so the group
\* has as many entries as members.
C3_OverloadsAllDistinct ==
    /\ pc # "start" =>
         \A i \in ChkEvents :
           ChkGroupDistinct(events.bySafeName, ChkEventsNamed(<<abi[i].name>>))
    /\ pc \in {"functions", "topics"} =>
         \A i \in ChkFunctions :
           ChkGroupDistinct(functions.bySafeName, ChkFunctionsNamed(<<abi[i].name>>))

\* Every member of an overload group is in map under its own signature without
\* the keyword, two members have different entries exactly when their
\* signatures differ, and the group has as many entries as distinct signatures.
ChkGroupBySignature(map, group) ==
    \A i \in group :
      Cardinality(group) >= 2 =>
        LET key == ChkBareSignature(abi[i])
        IN  /\ key \in DOMAIN map
            /\ map[key].safeName = key
            /\ map[key].signature = formatAbiItem(abi[i])
            /\ \A j \in group :
                 (map[ChkBareSignature(abi[j])] # map[key])
                 <=> (formatAbiItem(abi[j]) # formatAbiItem(abi[i]))
            /\ Cardinality(ChkKeysNamed(map, <<abi[i].name>>))
                 = Cardinality({formatAbiItem(abi[j]) : j \in group})

\* C3 amended: after buildAbiEvents (buildAbiFunctions) every member of a group
\* of same-named events (functions) is in bySafeName under its own signature
\* without the keyword; members have different keys exactly when their
\* signatures differ, so the group has as many entries as distinct signatures.
C3_OverloadsKeyedBySignature ==
    /\ pc # "start" =>
         \A i \in ChkEvents :
           ChkGroupBySignature(events.bySafeName, ChkEventsNamed(<<abi[i].name>>))
    /\ pc \in {"functions", "topics"} =>
         \A i \in ChkFunctions :
           ChkGroupBySignature(functions.bySafeName, ChkFunctionsNamed(<<abi[i].name>>))

\* An index was built from two same-named events with different signatures.
C3_Witness ==
    /\ pc # "start"
    /\ \E i, j \in ChkEvents :
         /\ abi[i].name = abi[j].name
         /\ formatAbiItem(abi[i]) # formatAbiItem(abi[j])
    /\ Cardinality(DOMAIN events.bySafeName) = 2

\* C4: a non-anonymous event whose name occurs once among the non-anonymous
\* events is stored in bySafeName under its plain name, with that safeName;
\* an anonymous event of the same name does not count.
C4_UniqueNameIsSafeName ==
    pc # "start" =>
      \A i \in ChkEvents :
        Cardinality(ChkEventsNamed(<<abi[i].name>>)) = 1 =>
          /\ <<abi[i].name>> \in DOMAIN events.bySafeName
          /\ events.bySafeName[<<abi[i].name>>].safeName = <<abi[i].name>>
          /\ events.bySafeName[<<abi[i].name>>].item = abi[i]

\* An index was built from an event and an anonymous event of the same name.
C4_Witness ==
    /\ pc # "start"
    /\ \E i \in ChkEvents :
         /\ Cardinality(ChkEventsNamed(<<abi[i].name>>)) = 1
         /\ \E j \in 1..Len(abi) :
              /\ abi[j].type = "event" /\ abi[j].anonymous = "true"
              /\ abi[j].name = abi[i].name

\* The declarations held as values of a mapping.
ChkItems(map) == {m.item : m \in ChkValues(map)}

\* C5: no anonymous event is a value of bySafeName or bySelector, and every
\* event whose anonymous flag is false or missing is a value of the index.
C5_AnonymousExcluded ==
    pc # "start" =>
      \A i \in 1..Len(abi) :
        abi[i].type = "event" =>
          /\ abi[i].anonymous = "true" =>
               abi[i] \notin ChkItems(events.bySafeName) \cup ChkItems(events.bySelector)
          /\ abi[i].anonymous \in {"false", "undefined"} =>
               abi[i] \in ChkItems(events.bySafeName)

\* An index was built from an anonymous event and an event flagged false.
C5_Witness ==
    /\ pc # "start"
    /\ \E i, j \in 1..Len(abi) :
         /\ abi[i].type = "event" /\ abi[i].anonymous = "true"
         /\ abi[j].type = "event" /\ abi[j].anonymous = "false"
    /\ events.bySafeName # <<>>

\* The errors the code throws when a reference resolves to no event: viem's
\* AbiEventNotFoundError for an item that is no event, and the TypeError of
\* reading the type of an undefined item.
ChkUnknownEventErrors == {"AbiEventNotFoundError", "TypeError"}

\* The positions of the interface's declarations of any kind called name.
ChkNamed(name) == {i \in 1..Len(abi) : <<abi[i].name>> = name}

\* C6: a bare name that the interface declares only as an anonymous event makes
\* buildTopics fail with an unknown-event error and return no tuple.
C6_AnonymousOnlyNameFails ==
    pc = "topics" =>
      \A k \in 1..Len(ChkSpecs) :
        (/\ ChkBare(ChkSpecs[k])
         /\ ChkEventsNamed(ChkSpecs[k].event) = {}
         /\ \E i \in ChkNamed(ChkSpecs[k].event) :
              abi[i].type = "event" /\ abi[i].anonymous = "true")
        => /\ ~topics.ok
           /\ topics.topics = <<>>
           /\ Len(ChkSpecs) = 1 => topics.error \in ChkUnknownEventErrors

\* C7: a bare name that matches no event declaration of the interface, also
\* one that matches only a function, makes buildTopics fail with an
\* unknown-event error and return no tuple.
C7_UnknownBareNameFails ==
    pc = "topics" =>
      \A k \in 1..Len(ChkSpecs) :
        (/\ ChkBare(ChkSpecs[k])
         /\ \A i \in ChkNamed(ChkSpecs[k].event) : abi[i].type # "event")
        => /\ ~topics.ok
           /\ topics.topics = <<>>
           /\ Len(ChkSpecs) = 1 => topics.error \in ChkUnknownEventErrors

\* A filter whose bare name matches only a function was compiled.
C7_Witness ==
    /\ pc = "topics"
    /\ ~filter.isArray
    /\ ChkBare(filter.spec)
    /\ ChkNamed(filter.spec.event) # {}
    /\ \A i \in ChkNamed(filter.spec.event) : abi[i].type = "function"
    /\ topics.error = "AbiEventNotFoundError"

\* The args of a spec constrain a parameter the event declares as non-indexed,
\* or a position beyond the event's indexed parameters.
ChkBadConstraint(item, args) ==
    LET indexedInputs == SelectSeq(item.inputs, isIndexed)
    IN  \/ /\ args.kind = "object"
           /\ \E a \in 1..Len(args.keys) :
                /\ args.vals[a].kind # "undefined"
                /\ \E p \in 1..Len(item.inputs) :
                     item.inputs[p].name = args.keys[a] /\ ~item.inputs[p].indexed
        \/ /\ args.kind = "array"
           /\ \E a \in 1..Len(args.vals) :
                a > Len(indexedInputs) /\ args.vals[a].kind # "undefined"

\* C8: a constraint on a non-indexed parameter of the resolved event, or on a
\* position beyond its indexed parameters, makes buildTopics fail with an
\* InvalidTopicPositionError; it is never ignored.
C8_BadConstraintFails ==
    pc = "topics" =>
      \A k \in 1..Len(ChkSpecs) :
        LET found == findAbiEvent(abi, ChkSpecs[k].event)
        IN  (/\ found.kind = "item"
             /\ found.item.type = "event"
             /\ ChkBadConstraint(found.item, ChkSpecs[k].args))
            => /\ ~topics.ok
               /\ topics.topics = <<>>
               /\ Len(ChkSpecs) = 1 => topics.error = "InvalidTopicPositionError"

\* C9: when every spec of the input compiles on its own, buildTopics returns one
\* tuple per spec, the i-th being the tuple of the i-th spec compiled alone, and
\* a single spec gives what the one-element array holding it gives.
C9_OneTuplePerSpecInOrder ==
    pc = "topics" =>
      /\ (\A i \in 1..Len(ChkSpecs) : buildTopics(abi, Single(ChkSpecs[i])).ok)
         => /\ topics.ok
            /\ Len(topics.topics) = Len(ChkSpecs)
            /\ \A i \in 1..Len(ChkSpecs) :
                 topics.topics[i] = buildTopics(abi, Single(ChkSpecs[i])).topics[1]
      /\ ~filter.isArray => topics = buildTopics(abi, Array(<<filter.spec>>))

\* An array of two specs was compiled into two different tuples.
C9_Witness ==
    /\ pc = "topics"
    /\ filter.isArray
    /\ Len(filter.specs) = 2
    /\ topics.ok
    /\ Len(topics.topics) = 2
    /\ topics.topics[1] # topics.topics[2]

ChkIndexed(spec) == SelectSeq(findAbiEvent(abi, spec.event).item.inputs, isIndexed)

\* The place in args.vals of the constraint on the k-th indexed parameter of
\* the event a spec resolves to, or 0 when the spec holds none.
ChkPlace(spec, k) ==
    LET args == spec.args
    IN  IF k > Len(ChkIndexed(spec)) THEN 0
        ELSE IF args.kind = "array" THEN (IF k <= Len(args.vals) THEN k ELSE 0)
        ELSE IF \E a \in 1..Len(args.keys) : args.keys[a] = ChkIndexed(spec)[k].name
        THEN CHOOSE a \in 1..Len(args.keys) : args.keys[a] = ChkIndexed(spec)[k].name
        ELSE 0

\* The constraint a spec puts on the k-th indexed parameter.
ChkConstraint(spec, k) ==
    IF ChkPlace(spec, k) = 0 THEN NoConstraint ELSE spec.args.vals[ChkPlace(spec, k)]

\* Slot k (1..3) of a tuple.
ChkSlot(tuple, k) ==
    IF k = 1 THEN tuple.topic1 ELSE IF k = 2 THEN tuple.topic2 ELSE tuple.topic3

\* The spec with the constraint on the k-th indexed parameter replaced by c.
ChkWithConstraint(spec, k, c) ==
    FilterSpec(spec.event, [spec.args EXCEPT !.vals[ChkPlace(spec, k)] = c])

\* C11: in every returned tuple topic0 is one value, and each of topic1..topic3
\* has the shape of its constraint: null without a constraint, one encoded
\* value for a single value, and for a list one encoded element per member, in
\* order, each equal to what the member gives as a single-value constraint.
C11_SlotsMirrorConstraints ==
    (pc = "topics" /\ topics.ok) =>
      \A n \in 1..Len(ChkSpecs) :
        LET spec == ChkSpecs[n]
            tuple == topics.topics[n]
        IN  /\ tuple.topic0.kind = "hex"
            /\ Len(tuple.topic0.vs) = 1
            /\ \A k \in 1..3 :
                 LET c == ChkConstraint(spec, k)
                     slot == ChkSlot(tuple, k)
                     alone(v) == ChkSlot(buildTopics(abi,
                                   Single(ChkWithConstraint(spec, k, One(v)))).topics[1], k)
                 IN  /\ c.kind = "undefined" => slot = Null
                     /\ c.kind = "value" =>
                          slot = Hex(encodeArg(ChkIndexed(spec)[k], c.vs[1]))
                     /\ c.kind = "list" =>
                          /\ slot.kind = "list"
                          /\ Len(slot.vs) = Len(c.vs)
                          /\ \A j \in 1..Len(c.vs) :
                               alone(c.vs[j]) = Hex(slot.vs[j])

\* A tuple with a single value, a list of two values and a null slot was
\* returned.
C11_Witness ==
    /\ pc = "topics"
    /\ topics.ok
    /\ \E n \in 1..Len(ChkSpecs) :
         /\ topics.topics[n].topic1.kind = "hex"
         /\ topics.topics[n].topic2.kind = "list"
         /\ Len(topics.topics[n].topic2.vs) = 2
         /\ topics.topics[n].topic3 = Null

\* The spec that keeps of a spec only the constraint on the k-th indexed
\* parameter, given by name.
ChkOnly(spec, k) ==
    FilterSpec(spec.event,
               ObjectArgs(<<ChkIndexed(spec)[k].name>>, <<ChkConstraint(spec, k)>>))

\* C12: slot k of a tuple is what the constraint on the k-th indexed parameter
\* of the resolved event, non-indexed parameters skipped, gives on its own, and
\* null when there is none; Transfer with {from: 1} compiles to topic1 = the
\* encoding of 1, topic2 = null, topic3 = null.
C12_SlotFollowsIndexedParameter ==
    (pc = "topics" /\ topics.ok) =>
      \A n \in 1..Len(ChkSpecs) :
        LET spec == ChkSpecs[n]
            tuple == topics.topics[n]
        IN  /\ \A k \in 1..3 :
                 IF ChkConstraint(spec, k).kind = "undefined"
                 THEN ChkSlot(tuple, k) = Null
                 ELSE /\ ChkSlot(tuple, k)
                           = ChkSlot(buildTopics(abi, Single(ChkOnly(spec, k))).topics[1], k)
                      /\ \A other \in (1..3) \ {k} :
                           ChkSlot(buildTopics(abi, Single(ChkOnly(spec, k))).topics[1],
                                   other) = Null
            /\ (/\ spec = FilterSpec(<<"Transfer">>, ObjectArgs(<<"from">>, <<One(1)>>))
                /\ \E i \in 1..Len(abi) : ChkNamed(<<"Transfer">>) = {i} /\ abi[i] = EvTransfer)
               => tuple = [topic0 |-> Hex(keccak256(<<"Transfer", "(", "address", ",",
                                                      "address", ",", "uint256", ")">>)),
                           topic1 |-> Hex([pad32 |-> 1]),
                           topic2 |-> Null,
                           topic3 |-> Null]

\* A filter constraining the indexed parameter declared after a non-indexed
\* one was compiled: the constraint is in slot 1.
C12_Witness ==
    /\ pc = "topics"
    /\ topics.ok
    /\ ~filter.isArray
    /\ filter.spec = FilterSpec(<<"Swap">>, ObjectArgs(<<"to">>, <<One(2)>>))
    /\ findAbiEvent(abi, <<"Swap">>).item = EvSwap
    /\ topics.topics[1].topic1 = Hex([pad32 |-> 2])
    /\ topics.topics[1].topic2 = Null

\* A spec is faulty: its bare name is carried by no event, or by two or more
\* non-anonymous events, or its reference does not resolve, or its args
\* constrain a non-indexed parameter or a position beyond the indexed ones.
ChkFaulty(spec) ==
    LET found == findAbiEvent(abi, spec.event)
    IN  \/ found.kind # "item"
        \/ found.item.type # "event"
        \/ ChkBare(spec) /\ Cardinality(ChkEventsNamed(spec.event)) >= 2
        \/ ChkBadConstraint(found.item, spec.args)

\* C13: when any spec of the input is faulty (unknown event, ambiguous
\* reference, invalid topic position), buildTopics fails as a whole and returns
\* no tuple, wherever the faulty spec stands.
C13_FaultySpecFailsWholeCall ==
    pc = "topics" =>
      ((\E i \in 1..Len(ChkSpecs) : ChkFaulty(ChkSpecs[i]))
       => ~topics.ok /\ topics.topics = <<>>)

\* C14: a reference that holds "(" is resolved from the reference alone: the
\* call returns what it returns for the empty interface, whatever the interface
\* declares; a bare name is never parsed, so without a declaration of that name
\* the call fails on the undefined item.
C14_SignatureIgnoresInterface ==
    pc = "topics" =>
      /\ (\A k \in 1..Len(ChkSpecs) : ~ChkBare(ChkSpecs[k]))
         => topics = buildTopics(<<>>, filter)
      /\ \A k \in 1..Len(ChkSpecs) :
           /\ ~ChkBare(ChkSpecs[k])
              => buildTopics(abi, Single(ChkSpecs[k])) = buildTopics(<<>>, Single(ChkSpecs[k]))
           /\ (ChkBare(ChkSpecs[k]) /\ ChkNamed(ChkSpecs[k].event) = {})
              => /\ ~topics.ok
                 /\ Len(ChkSpecs) = 1 => topics.error = "TypeError"

\* A filter by full signature was compiled against an interface that declares
\* other events of that name, none of them with that signature.
C14_Witness ==
    /\ pc = "topics"
    /\ ~filter.isArray
    /\ filter.spec.event = SigFooUint
    /\ Len(abi) = 2
    /\ \A i \in 1..Len(abi) : abi[i].name = "Foo" /\ toSignature(abi[i]) # SigFooUint
    /\ topics.ok
    /\ topics.topics[1].topic0 = Hex(keccak256(SigFooUint))

\* The interface holds exactly one function called as the one at position i.
ChkOnce(i) == Cardinality(ChkFunctionsNamed(<<abi[i].name>>)) = 1

\* The safeName the function at position i is to get: the name followed by
\* "()" when the name occurs once, else the signature without "function ".
ChkFunctionKey(i) ==
    IF ChkOnce(i) THEN <<abi[i].name, "(", ")">>
    ELSE SubSeq(formatAbiItem(abi[i]), 3, Len(formatAbiItem(abi[i])))

ChkPermutations(s) ==
    {[i \in 1..Len(s) |-> s[p[i]]] :
       p \in {q \in [1..Len(s) -> 1..Len(s)] :
                \A a, b \in 1..Len(s) : a # b => q[a] # q[b]}}

\* C16: the index buildAbiEvents (buildAbiFunctions) returns is the same for
\* every order of the declarations: both mappings hold the same keys with the
\* same entries.
C16_IndexIgnoresOrder ==
    /\ pc # "start" => \A t \in ChkPermutations(abi) : buildAbiEvents(t) = events
    /\ pc \in {"functions", "topics"} =>
         \A t \in ChkPermutations(abi) : buildAbiFunctions(t) = functions

\* C17: an interface without non-anonymous events gives an events index with
\* both mappings empty, and an interface without functions a functions index
\* with both mappings empty.
C17_EmptyKindGivesEmptyIndex ==
    /\ (pc # "start" /\ ChkEvents = {}) =>
         DOMAIN events.bySafeName = {} /\ DOMAIN events.bySelector = {}
    /\ (pc \in {"functions", "topics"} /\ ChkFunctions = {}) =>
         DOMAIN functions.bySafeName = {} /\ DOMAIN functions.bySelector = {}

\* Both indices were built from an interface that holds only an anonymous
\* event and functions: the events index is empty, the functions index is not.
C17_Witness ==
    /\ pc = "functions"
    /\ \E i \in 1..Len(abi) : abi[i].type = "event" /\ abi[i].anonymous = "true"
    /\ ChkFunctions # {}
    /\ ChkEvents = {}
    /\ events = EmptyIndex
    /\ DOMAIN functions.bySafeName # {}

\* The two mappings of an index hold the same entries, each found under its
\* own safeName and its own selector.
ChkCrossReferenced(index) ==
    /\ \A m \in ChkValues(index.bySafeName) :
         m.selector \in DOMAIN index.bySelector /\ index.bySelector[m.selector] = m
    /\ \A m \in ChkValues(index.bySelector) :
         m.safeName \in DOMAIN index.bySafeName /\ index.bySafeName[m.safeName] = m
    /\ ChkValues(index.bySafeName) = ChkValues(index.bySelector)

\* C18: in a returned index every entry of bySafeName is the entry bySelector
\* holds under its selector and every entry of bySelector is the entry
\* bySafeName holds under its safeName, so both mappings hold the same entries.
C18_MappingsCrossReferenced ==
    /\ pc # "start" => ChkCrossReferenced(events)
    /\ pc \in {"functions", "topics"} => ChkCrossReferenced(functions)

\* text is stdout without the whitespace around it.
ChkTrimmed(text, stdout) ==
    /\ text # <<>>
    /\ text[1] \notin Whitespace
    /\ text[Len(text)] \notin Whitespace
    /\ \E a, b \in 0..Len(stdout) :
         /\ a + Len(text) + b = Len(stdout)
         /\ \A i \in 1..a : stdout[i] \in Whitespace
         /\ \A i \in 1..Len(text) : stdout[a + i] = text[i]
         /\ \A i \in 1..b : stdout[a + Len(text) + i] \in Whitespace

\* The whole output is whitespace.
ChkBlank(stdout) == \A i \in 1..Len(stdout) : stdout[i] \in Whitespace

\* Resolved with the right value, never rejected, the promise settled by at
\* most one call.
ChkProjectIdSafe ==
    /\ outer.state # "rejected"
    /\ calls <= 1
    /\ promise.state \in {"fulfilled", "rejected"} => calls = 1
    /\ promise.state = "rejected" <=> (calls = 1 /\ exec.error # "none")
    /\ ppc = "done" =>
         /\ outer.state = "fulfilled"
         /\ (exec.throws \/ exec.error # "none" \/ ChkBlank(exec.stdout))
            => outer.text = Cwd
         /\ ~(exec.throws \/ exec.error # "none" \/ ChkBlank(exec.stdout))
            => ChkTrimmed(outer.text, exec.stdout)

\* C19: getRawProjectId always resolves and never rejects: with the working
\* directory when exec throws, calls back with an error or gives blank output,
\* else with the trimmed output; the callback settles the promise once.
C19_AlwaysResolves == []ChkProjectIdSafe /\ <>(ppc = "done")

\* The call resolved with the working directory after the callback rejected
\* the promise on a timeout that had produced output.
C19_Witness ==
    /\ ppc = "done"
    /\ exec.error = "timeout"
    /\ ~ChkBlank(exec.stdout)
    /\ promise.state = "rejected"
    /\ calls = 1
    /\ outer = [state |-> "fulfilled", text |-> Cwd]

====
